---- MODULE Spec2Model ----
(***************************************************************************)
(* SRT Audio Sync (src/ghepvoice.py): the worker thread _sync_thread, the  *)
(* GUI handlers that start and stop it, and the core functions it calls    *)
(* (parse_srt_file, process_audio_speed, create_timeline).                 *)
(*                                                                         *)
(* Times are integer milliseconds (SRT timestamps have millisecond         *)
(* resolution).  The external engine (ffmpeg / ffprobe) is the             *)
(* environment: every subprocess.run is a job that is started by one step  *)
(* and returns, with success or failure, in a later step.                  *)
(***************************************************************************)
EXTENDS Integers, Sequences, FiniteSets, TLC

\* ------------------------------------------------------------------ bounds
MaxCues == 2        \* cues in a track / matches handed to create_timeline
MaxTime == 4        \* time points Ms(0) .. Ms(MaxTime) of the timeline inputs
MaxLate == 1        \* finished workers that still owe their last after() call
MaxClip == 14       \* process_audio_speed alone: clip durations 1 .. MaxClip
MaxDur == 3         \* process_audio_speed alone: cue durations -MaxDur .. MaxDur
MaxStages == 4      \* atempo=0.5 stages followed in the loop of lines 293-295
MaxIndex == 2       \* find_audio_for_subtitle alone: cue indexes 1 .. MaxIndex
MaxFiles == 2       \* find_audio_for_subtitle alone: entries in the directory

\* The time points used as inputs: 0, 4, 8, 20, 24, 28, 40, ... ms, so that
\* gaps below and above the 10 ms threshold of create_timeline both occur and
\* no gap equals the threshold (where the float comparison of the source
\* depends on the rounding of the subtraction).
Ms(k) == 20 * (k \div 3) + 4 * (k % 3)

\* gap_before > 0.01 (seconds), in milliseconds
EPS_MS == 10

\* ----------------------------------------------------------------- helpers
RECURSIVE SumSeq(_)
SumSeq(s) == IF s = <<>> THEN 0 ELSE Head(s) + SumSeq(Tail(s))

Range(s) == {s[k] : k \in 1..Len(s)}

\* list.sort(key=...) of Python is stable: an element goes after the elements
\* already placed whose key is not greater.
\* (variant: an element whose key is already there is dropped)
RECURSIVE InsertByIndexOnce(_, _)
InsertByIndexOnce(x, s) ==
    IF s = <<>> THEN <<x>>
    ELSE IF x.index < Head(s).index THEN <<x>> \o s
    ELSE IF x.index = Head(s).index THEN s
    ELSE <<Head(s)>> \o InsertByIndexOnce(x, Tail(s))

RECURSIVE InsertByIndex(_, _)
InsertByIndex(x, s) ==
    IF s = <<>> THEN <<x>>
    ELSE IF x.index < Head(s).index THEN <<x>> \o s
    ELSE <<Head(s)>> \o InsertByIndex(x, Tail(s))

RECURSIVE SortByIndex(_)
SortByIndex(s) ==
    IF s = <<>> THEN <<>>
    ELSE InsertByIndex(s[Len(s)], SortByIndex(SubSeq(s, 1, Len(s) - 1)))

\* (variant: an element goes before the elements of equal key)
RECURSIVE InsertByStartFirst(_, _)
InsertByStartFirst(x, s) ==
    IF s = <<>> THEN <<x>>
    ELSE IF x.subtitle.start_time <= Head(s).subtitle.start_time THEN <<x>> \o s
    ELSE <<Head(s)>> \o InsertByStartFirst(x, Tail(s))

RECURSIVE InsertByStart(_, _)
InsertByStart(x, s) ==
    IF s = <<>> THEN <<x>>
    ELSE IF x.subtitle.start_time < Head(s).subtitle.start_time THEN <<x>> \o s
    ELSE <<Head(s)>> \o InsertByStart(x, Tail(s))

RECURSIVE SortByStart(_)
SortByStart(s) ==
    IF s = <<>> THEN <<>>
    ELSE InsertByStart(s[Len(s)], SortByStart(SubSeq(s, 1, Len(s) - 1)))

\* ------------------------------------------------------------ data classes
\* SubtitleLine (text omitted: no operation reads it)
SubtitleLine(index, start_time, end_time) ==
    [index |-> index, start_time |-> start_time, end_time |-> end_time,
     duration |-> end_time - start_time]

\* Paths of the run: the clip found for a cue, the files of the scratch
\* directory.  n is the part of the name that varies.
NoPath == [k |-> "none", n |-> 0]
AudioPath(index) == [k |-> "audio", n |-> index]
ProcessedPath(audio_path) == [k |-> "processed", n |-> audio_path.n]
SilencePath(i) == [k |-> "silence", n |-> i]

\* speed_factor is the exact quotient audio_duration / duration, kept as
\* <<numerator, denominator>>.
SpeedupNeeded(audio_duration, sub) == audio_duration > sub.duration

SpeedFactor(audio_duration, sub) ==
    IF SpeedupNeeded(audio_duration, sub) THEN <<audio_duration, sub.duration>> ELSE <<1, 1>>

AudioMatch(sub, audio_path, audio_duration) ==
    [subtitle |-> sub, audio_path |-> audio_path, audio_duration |-> audio_duration,
     needs_speedup |-> SpeedupNeeded(audio_duration, sub),
     speed_factor |-> SpeedFactor(audio_duration, sub),
     processed_path |-> NoPath]

\* parse_srt_file: one SubtitleLine per block, sorted by index.
parse_srt_file(blocks) ==
    SortByIndex([k \in 1..Len(blocks) |->
                    SubtitleLine(blocks[k].index, blocks[k].start, blocks[k].end)])

\* ---------------------------------------------------------------- the state
VARIABLES
    pc,             \* position of the worker thread ("idle": no worker)
    is_processing,  \* self.is_processing, shared by the GUI and the worker
    btn_start,      \* state of the Start button
    btn_stop,       \* state of the Stop button
    afterq,         \* callbacks posted with self.after(0, ...), in order
    late,           \* workers past after(enable Start), before after(disable Stop)
    subtitles,      \* the parsed cues
    i,              \* index of the loop the worker is in (1-based)
    clips,          \* what the directory and the probe answered, per visited cue
    matches,        \* the list of AudioMatch
    keep_temp,      \* var_keep_temp as read at line 731
    temp_dir,       \* "none", "exists", "deleted"
    scratch,        \* files of temp_dir: path -> duration of the audio in it
    engine,         \* the external job in flight
    segment_files,  \* create_timeline: the paths collected so far
    current_time,   \* create_timeline: current_time
    manifest,       \* concat_list.txt as written (<<>> before)
    invoked,        \* kinds of engine jobs started in this run
    output,         \* durations of the segments in the output file this run wrote
    log,            \* the messages the worker logged in this run
    exc,            \* the exception travelling to the except clause ("none")
    content,        \* parse_srt_file: the blocks of the file, in file order
    audio_dir,      \* find_audio_for_subtitle: the directory looked into
    audio_path,     \* find_audio_for_subtitle: the name returned (NoName: None)
    speed,          \* process_audio_speed: speed, as <<numerator, denominator>>
    atempo_filters  \* process_audio_speed: atempo_filters, the stages so far

vars == <<pc, is_processing, btn_start, btn_stop, afterq, late, subtitles, i, clips,
          matches, keep_temp, temp_dir, scratch, engine, segment_files, current_time,
          manifest, invoked, output, log, exc,
          content, audio_dir, audio_path, speed, atempo_filters>>

\* The locals of the core functions that are followed step by step on their
\* own (parse_srt_file, find_audio_for_subtitle, process_audio_speed).
coreVars == <<content, audio_dir, audio_path, speed, atempo_filters>>

guiVars == <<btn_start, btn_stop, afterq, late>>
timelineVars == <<segment_files, current_time, manifest, output>>

NoJob == [kind |-> "none", arg |-> 0]
Job(kind, arg) == [kind |-> kind, arg |-> arg]

NoFiles == [p \in {} |-> 0]
WriteFile(fs, path, dur) ==
    [p \in (DOMAIN fs) \cup {path} |-> IF p = path THEN dur ELSE fs[p]]

LogLine(level, msg, idx) == [level |-> level, msg |-> msg, idx |-> idx]

\* No core function is being followed.
NoName == <<>>
NoDir == [listdir_ok |-> TRUE, files |-> <<>>]
CoreIdle ==
    /\ content = <<>>
    /\ audio_dir = NoDir
    /\ audio_path = NoName
    /\ speed = <<1, 1>>
    /\ atempo_filters = <<>>

\* State of a fresh worker: the locals of _sync_thread before its first line.
FreshRun ==
    /\ subtitles = <<>>
    /\ i = 1
    /\ clips = <<>>
    /\ matches = <<>>
    /\ keep_temp = FALSE
    /\ temp_dir = "none"
    /\ scratch = NoFiles
    /\ engine = NoJob
    /\ segment_files = <<>>
    /\ current_time = 0
    /\ manifest = <<>>
    /\ invoked = {}
    /\ output = <<>>
    /\ log = <<>>
    /\ exc = "none"

\* The same, for the thread that _start_sync creates.
FreshRunNext ==
    /\ subtitles' = <<>>
    /\ i' = 1
    /\ clips' = <<>>
    /\ matches' = <<>>
    /\ keep_temp' = FALSE
    /\ temp_dir' = "none"
    /\ scratch' = NoFiles
    /\ engine' = NoJob
    /\ segment_files' = <<>>
    /\ current_time' = 0
    /\ manifest' = <<>>
    /\ invoked' = {}
    /\ output' = <<>>
    /\ log' = <<>>
    /\ exc' = "none"

Init ==
    /\ pc = "idle"
    /\ is_processing = FALSE
    /\ btn_start = "normal"
    /\ btn_stop = "disabled"
    /\ afterq = <<>>
    /\ late = 0
    /\ FreshRun
    /\ CoreIdle

\* ------------------------------------------------------------------ inputs
\* The cue files a run reads: block k has index k and one of three shapes in
\* its own slot: a 4 ms cue, a cue of duration zero, and a cue whose end
\* precedes its start (the pattern of parse_srt_file accepts all of them).
\* Slots are 12 ms apart.
SlotStart(k) == 16 * (k - 1)
SlotEnd(k) == SlotStart(k) + 4

RunBlocks(k) ==
    {[index |-> k, start |-> SlotStart(k), end |-> SlotEnd(k)],
     [index |-> k, start |-> SlotStart(k), end |-> SlotStart(k)],
     [index |-> k, start |-> SlotEnd(k), end |-> SlotStart(k)]}

SrtFiles ==
    UNION {{f \in [1..n -> UNION {RunBlocks(k) : k \in 1..n}] :
               \A k \in 1..n : f[k] \in RunBlocks(k)} : n \in 0..MaxCues}

\* Durations ffprobe reports for a clip: one not longer than any cue of
\* positive duration, one longer than every cue.
ProbeDurations == {Ms(1), Ms(MaxTime) + Ms(1)}

\* ------------------------------------------------------------ GUI handlers
\* _start_sync, lines 651-664 (the validations of lines 630-649 return
\* without changing anything).  A new thread starts with fresh locals.
StartSync ==
    /\ btn_start = "normal"
    /\ is_processing' = TRUE
    /\ btn_start' = "disabled"
    /\ btn_stop' = "normal"
    /\ pc' = "parse"
    /\ FreshRunNext
    /\ UNCHANGED <<coreVars, afterq, late>>

\* _stop_sync.  Its own log line is not recorded, and a click that finds the
\* flag already cleared changes nothing.
StopSync ==
    /\ btn_stop = "normal"
    /\ is_processing
    /\ is_processing' = FALSE
    /\ UNCHANGED <<coreVars, pc, btn_start, btn_stop, afterq, late, subtitles, i, clips, matches,
                   keep_temp, temp_dir, scratch, engine, segment_files, current_time,
                   manifest, invoked, output, log, exc>>

\* The Tk main loop runs the oldest callback posted with after(0, ...).
RunAfter ==
    /\ afterq # <<>>
    /\ afterq' = Tail(afterq)
    /\ IF Head(afterq) = "start_normal"
       THEN btn_start' = "normal" /\ UNCHANGED btn_stop
       ELSE btn_stop' = "disabled" /\ UNCHANGED btn_start
    /\ UNCHANGED <<coreVars, pc, is_processing, late, subtitles, i, clips, matches, keep_temp,
                   temp_dir, scratch, engine, segment_files, current_time, manifest,
                   invoked, output, log, exc>>

\* ------------------------------------------------- _sync_thread: parse, match
workerRest == <<is_processing, btn_start, btn_stop, afterq, late>>

\* lines 677-683
ParseSrt ==
    /\ pc = "parse"
    /\ \E f \in SrtFiles :
         /\ subtitles' = parse_srt_file(f)
         /\ IF subtitles' = <<>>
            THEN pc' = "except" /\ exc' = "no_subtitles"
            ELSE pc' = "match_loop" /\ exc' = exc
    /\ i' = 1
    /\ UNCHANGED <<coreVars, workerRest, clips, matches, keep_temp, temp_dir, scratch, engine,
                   segment_files, current_time, manifest, invoked, output, log>>

\* line 692: the loop is exhausted
MatchLoopExit ==
    /\ pc = "match_loop"
    /\ i > Len(subtitles)
    /\ pc' = "post_match"
    /\ UNCHANGED <<coreVars, workerRest, subtitles, i, clips, matches, keep_temp, temp_dir, scratch,
                   engine, segment_files, current_time, manifest, invoked, output, log, exc>>

\* lines 693-695: return, which runs the outer finally
MatchStopped ==
    /\ pc = "match_loop"
    /\ i <= Len(subtitles)
    /\ ~is_processing
    /\ log' = Append(log, LogLine("WARNING", "stopped", 0))
    /\ pc' = "finally"
    /\ UNCHANGED <<coreVars, workerRest, subtitles, i, clips, matches, keep_temp, temp_dir, scratch,
                   engine, segment_files, current_time, manifest, invoked, output, exc>>

\* lines 697-701: find_audio_for_subtitle returns None
MatchNotFound ==
    /\ pc = "match_loop"
    /\ i <= Len(subtitles)
    /\ is_processing
    /\ clips' = Append(clips, [found |-> FALSE, probed |-> FALSE, dur |-> 0])
    /\ log' = Append(log, LogLine("WARNING", "no_audio", subtitles[i].index))
    /\ i' = i + 1
    /\ UNCHANGED <<coreVars, workerRest, pc, subtitles, matches, keep_temp, temp_dir, scratch, engine,
                   segment_files, current_time, manifest, invoked, output, exc>>

\* lines 697-704: a clip is found and ffprobe is started on it
MatchFound ==
    /\ pc = "match_loop"
    /\ i <= Len(subtitles)
    /\ is_processing
    /\ clips' = Append(clips, [found |-> TRUE, probed |-> FALSE, dur |-> 0])
    /\ engine' = Job("probe", i)
    /\ invoked' = invoked \cup {"probe"}
    /\ pc' = "probe_wait"
    /\ UNCHANGED <<coreVars, workerRest, subtitles, i, matches, keep_temp, temp_dir, scratch,
                   segment_files, current_time, manifest, output, log, exc>>

\* (variant: the probe is not guarded by the try of lines 703-707)
ProbeFailedAborts ==
    /\ pc = "probe_wait"
    /\ engine' = NoJob
    /\ exc' = "probe"
    /\ pc' = "except"
    /\ UNCHANGED <<coreVars, workerRest, subtitles, i, clips, matches, keep_temp, temp_dir, scratch,
                   segment_files, current_time, manifest, invoked, output, log>>

\* lines 705-707: ffprobe fails or prints no number
ProbeFailed ==
    /\ pc = "probe_wait"
    /\ engine' = NoJob
    /\ log' = Append(log, LogLine("ERROR", "probe_error", subtitles[i].index))
    /\ i' = i + 1
    /\ pc' = "match_loop"
    /\ UNCHANGED <<coreVars, workerRest, subtitles, clips, matches, keep_temp, temp_dir, scratch,
                   segment_files, current_time, manifest, invoked, output, exc>>

\* lines 704, 709-721: the division of line 710 raises ZeroDivisionError for
\* a cue of duration zero, outside the try of lines 703-707.
ProbeOk ==
    /\ pc = "probe_wait"
    /\ engine' = NoJob
    /\ \E d \in ProbeDurations :
         LET sub == subtitles[i] IN
         /\ clips' = [clips EXCEPT ![i] = [found |-> TRUE, probed |-> TRUE, dur |-> d]]
         /\ IF SpeedupNeeded(d, sub) /\ sub.duration = 0
            THEN /\ pc' = "except"
                 /\ exc' = "zero_division"
                 /\ UNCHANGED <<matches, log, i>>
            ELSE /\ matches' = Append(matches, AudioMatch(sub, AudioPath(sub.index), d))
                 /\ log' = Append(log, LogLine("INFO", "matched", sub.index))
                 /\ i' = i + 1
                 /\ pc' = "match_loop"
                 /\ exc' = exc
    /\ UNCHANGED <<coreVars, workerRest, subtitles, keep_temp, temp_dir, scratch, segment_files,
                   current_time, manifest, invoked, output>>

\* --------------------------------------------- _sync_thread: per-clip jobs
\* (variant: the test of line 725 is missing)
NoMatchesGoesOn ==
    /\ pc = "post_match"
    /\ matches = <<>>
    /\ keep_temp' \in BOOLEAN
    /\ temp_dir' = "exists"
    /\ i' = 1
    /\ pc' = "proc_loop"
    /\ UNCHANGED <<coreVars, workerRest, subtitles, clips, matches, scratch, engine, segment_files,
                   current_time, manifest, invoked, output, log, exc>>

\* lines 725-726
NoMatches ==
    /\ pc = "post_match"
    /\ matches = <<>>
    /\ exc' = "no_match"
    /\ pc' = "except"
    /\ UNCHANGED <<coreVars, workerRest, subtitles, i, clips, matches, keep_temp, temp_dir, scratch,
                   engine, segment_files, current_time, manifest, invoked, output, log>>

\* lines 728-738: the checkbox is read and the scratch directory is created
MakeTempDir ==
    /\ pc = "post_match"
    /\ matches # <<>>
    /\ keep_temp' \in BOOLEAN
    /\ temp_dir' = "exists"
    /\ i' = 1
    /\ pc' = "proc_loop"
    /\ UNCHANGED <<coreVars, workerRest, subtitles, clips, matches, scratch, engine, segment_files,
                   current_time, manifest, invoked, output, log, exc>>

\* process_audio_speed, lines 289-295: `while speed > 2.0` halves a positive
\* speed until it stops; `while speed < 0.5` doubles it, which leaves a speed
\* that is zero or negative below 0.5 for ever.
AtempoLoopsEnd(m) ==
    ~m.needs_speedup \/ m.speed_factor[1] * m.speed_factor[2] > 0

\* The length of the file the per-clip job writes: the clip at natural speed
\* (lines 279-284), or played speed_factor times faster (lines 286-305).
ProcessedLen(m) ==
    IF m.needs_speedup THEN m.subtitle.duration ELSE m.audio_duration

\* (variant: the loop stops one match early)
ProcLoopExitEarly ==
    /\ pc = "proc_loop"
    /\ i >= Len(matches)
    /\ pc' = "timeline"
    /\ UNCHANGED <<coreVars, workerRest, subtitles, i, clips, matches, keep_temp, temp_dir, scratch,
                   engine, segment_files, current_time, manifest, invoked, output, log, exc>>

\* line 740: the loop is exhausted; line 753 calls create_timeline
ProcLoopExit ==
    /\ pc = "proc_loop"
    /\ i > Len(matches)
    /\ pc' = "timeline"
    /\ UNCHANGED <<coreVars, workerRest, subtitles, i, clips, matches, keep_temp, temp_dir, scratch,
                   engine, segment_files, current_time, manifest, invoked, output, log, exc>>

\* (variant: the return of line 743 is missing)
ProcStoppedGoesOn ==
    /\ pc = "proc_loop"
    /\ i <= Len(matches)
    /\ ~is_processing
    /\ log' = Append(log, LogLine("WARNING", "stopped", 0))
    /\ engine' = Job("process", i)
    /\ invoked' = invoked \cup {"process"}
    /\ pc' = "proc_wait"
    /\ UNCHANGED <<coreVars, workerRest, subtitles, i, clips, matches, keep_temp, temp_dir, scratch,
                   segment_files, current_time, manifest, output, exc>>

\* lines 741-743: return, which runs the inner finally, then the outer one
ProcStopped ==
    /\ pc = "proc_loop"
    /\ i <= Len(matches)
    /\ ~is_processing
    /\ log' = Append(log, LogLine("WARNING", "stopped", 0))
    /\ pc' = "cleanup"
    /\ UNCHANGED <<coreVars, workerRest, subtitles, i, clips, matches, keep_temp, temp_dir, scratch,
                   engine, segment_files, current_time, manifest, invoked, output, exc>>

\* lines 745-746, 275-307: the command is built and ffmpeg is started
ProcStart ==
    /\ pc = "proc_loop"
    /\ i <= Len(matches)
    /\ is_processing
    /\ AtempoLoopsEnd(matches[i])
    /\ engine' = Job("process", i)
    /\ invoked' = invoked \cup {"process"}
    /\ pc' = "proc_wait"
    /\ UNCHANGED <<coreVars, workerRest, subtitles, i, clips, matches, keep_temp, temp_dir, scratch,
                   segment_files, current_time, manifest, output, log, exc>>

\* lines 293-295 never finish: the worker stays in process_audio_speed
ProcSpin ==
    /\ pc = "proc_loop"
    /\ i <= Len(matches)
    /\ is_processing
    /\ ~AtempoLoopsEnd(matches[i])
    /\ pc' = "atempo_spin"
    /\ UNCHANGED <<coreVars, workerRest, subtitles, i, clips, matches, keep_temp, temp_dir, scratch,
                   engine, segment_files, current_time, manifest, invoked, output, log, exc>>

\* lines 307-309, 747: ffmpeg exits with 0
ProcDone ==
    /\ pc = "proc_wait"
    /\ engine' = NoJob
    /\ LET out == ProcessedPath(matches[i].audio_path) IN
         /\ scratch' = WriteFile(scratch, out, ProcessedLen(matches[i]))
         /\ matches' = [matches EXCEPT ![i].processed_path = out]
    /\ i' = i + 1
    /\ pc' = "proc_loop"
    /\ UNCHANGED <<coreVars, workerRest, subtitles, clips, keep_temp, temp_dir, segment_files,
                   current_time, manifest, invoked, output, log, exc>>

\* (variant: the per-clip loop runs outside the try of line 735)
ProcFailedSkipsCleanup ==
    /\ pc = "proc_wait"
    /\ engine' = NoJob
    /\ exc' = "process"
    /\ pc' = "except"
    /\ UNCHANGED <<coreVars, workerRest, subtitles, i, clips, matches, keep_temp, temp_dir, scratch,
                   segment_files, current_time, manifest, invoked, output, log>>

\* line 307: check=True raises CalledProcessError, which no handler inside
\* the loop catches; it leaves the try of line 735
ProcFailed ==
    /\ pc = "proc_wait"
    /\ engine' = NoJob
    /\ exc' = "process"
    /\ pc' = "cleanup"
    /\ UNCHANGED <<coreVars, workerRest, subtitles, i, clips, matches, keep_temp, temp_dir, scratch,
                   segment_files, current_time, manifest, invoked, output, log>>

\* --------------------------------------------------------- create_timeline
GapBefore(m, now) == m.subtitle.start_time - now

\* (variant: the threshold taken ten times too large)
NeedsSilenceCoarse(gap) == gap > 10 * EPS_MS

\* line 336
NeedsSilence(gap) == gap > EPS_MS

\* lines 341-342
ClipSegment(m) == IF m.processed_path # NoPath THEN <<m.processed_path>> ELSE <<>>

\* (variant: the clock follows the rendered clip instead of the cue)
TimeAfterClip(m) == m.subtitle.start_time + ProcessedLen(m)

\* line 344
TimeAfter(m) == m.subtitle.end_time

\* lines 328-331
TimelineBegin ==
    /\ pc = "timeline"
    /\ matches' = SortByStart(matches)
    /\ segment_files' = <<>>
    /\ current_time' = 0
    /\ i' = 1
    /\ pc' = "tl_loop"
    /\ UNCHANGED <<coreVars, workerRest, subtitles, clips, keep_temp, temp_dir, scratch, engine,
                   manifest, invoked, output, log, exc>>

\* lines 333-344 when the gap is not above the threshold
TimelineNoGap ==
    /\ pc = "tl_loop"
    /\ i <= Len(matches)
    /\ ~NeedsSilence(GapBefore(matches[i], current_time))
    /\ segment_files' = segment_files \o ClipSegment(matches[i])
    /\ current_time' = TimeAfter(matches[i])
    /\ i' = i + 1
    /\ UNCHANGED <<coreVars, workerRest, pc, subtitles, clips, matches, keep_temp, temp_dir, scratch,
                   engine, manifest, invoked, output, log, exc>>

\* lines 336-338, 312-321: generate_silence starts ffmpeg
SilenceStart ==
    /\ pc = "tl_loop"
    /\ i <= Len(matches)
    /\ NeedsSilence(GapBefore(matches[i], current_time))
    /\ engine' = Job("silence", GapBefore(matches[i], current_time))
    /\ invoked' = invoked \cup {"silence"}
    /\ pc' = "silence_wait"
    /\ UNCHANGED <<coreVars, workerRest, subtitles, i, clips, matches, keep_temp, temp_dir, scratch,
                   segment_files, current_time, manifest, output, log, exc>>

\* lines 321-322, 339-344: the silence file exists with the length asked for
\* (-t duration); enumerate counts from 0
SilenceDone ==
    /\ pc = "silence_wait"
    /\ engine' = NoJob
    /\ scratch' = WriteFile(scratch, SilencePath(i - 1), engine.arg)
    /\ segment_files' = Append(segment_files, SilencePath(i - 1)) \o ClipSegment(matches[i])
    /\ current_time' = TimeAfter(matches[i])
    /\ i' = i + 1
    /\ pc' = "tl_loop"
    /\ UNCHANGED <<coreVars, workerRest, subtitles, clips, matches, keep_temp, temp_dir, manifest,
                   invoked, output, log, exc>>

\* line 321: CalledProcessError leaves create_timeline
SilenceFailed ==
    /\ pc = "silence_wait"
    /\ engine' = NoJob
    /\ exc' = "silence"
    /\ pc' = "cleanup"
    /\ UNCHANGED <<coreVars, workerRest, subtitles, i, clips, matches, keep_temp, temp_dir, scratch,
                   segment_files, current_time, manifest, invoked, output, log>>

\* lines 346-359: the manifest is written and the concat job is started
ConcatStart ==
    /\ pc = "tl_loop"
    /\ i > Len(matches)
    /\ manifest' = segment_files
    /\ engine' = Job("concat", 0)
    /\ invoked' = invoked \cup {"concat"}
    /\ pc' = "concat_wait"
    /\ UNCHANGED <<coreVars, workerRest, subtitles, i, clips, matches, keep_temp, temp_dir, scratch,
                   segment_files, current_time, output, log, exc>>

\* lines 359-360: the output holds the segments of the manifest, in order
ConcatDone ==
    /\ pc = "concat_wait"
    /\ engine' = NoJob
    /\ output' = [k \in 1..Len(manifest) |-> scratch[manifest[k]]]
    /\ pc' = "tl_return"
    /\ UNCHANGED <<coreVars, workerRest, subtitles, i, clips, matches, keep_temp, temp_dir, scratch,
                   segment_files, current_time, manifest, invoked, log, exc>>

\* line 359: CalledProcessError leaves create_timeline
ConcatFailed ==
    /\ pc = "concat_wait"
    /\ engine' = NoJob
    /\ exc' = "concat"
    /\ pc' = "cleanup"
    /\ UNCHANGED <<coreVars, workerRest, subtitles, i, clips, matches, keep_temp, temp_dir, scratch,
                   segment_files, current_time, manifest, invoked, output, log>>

\* ------------------------------------------- _sync_thread: after the timeline
\* lines 755-759: ffprobe is started on the output file
FinalProbeStart ==
    /\ pc = "tl_return"
    /\ engine' = Job("probe", 0)
    /\ invoked' = invoked \cup {"probe"}
    /\ pc' = "final_probe_wait"
    /\ UNCHANGED <<coreVars, workerRest, subtitles, i, clips, matches, keep_temp, temp_dir, scratch,
                   segment_files, current_time, manifest, output, log, exc>>

SuccessLines == <<LogLine("SUCCESS", "saved", 0), LogLine("SUCCESS", "complete", 0)>>

\* lines 759-772: the duration is logged, then success is reported
FinalProbeOk ==
    /\ pc = "final_probe_wait"
    /\ engine' = NoJob
    /\ log' = Append(log, LogLine("INFO", "total_duration", 0)) \o SuccessLines
    /\ pc' = "cleanup"
    /\ UNCHANGED <<coreVars, workerRest, subtitles, i, clips, matches, keep_temp, temp_dir, scratch,
                   segment_files, current_time, manifest, invoked, output, exc>>

\* lines 761-772: a failing probe of the output is ignored
FinalProbeFailed ==
    /\ pc = "final_probe_wait"
    /\ engine' = NoJob
    /\ log' = log \o SuccessLines
    /\ pc' = "cleanup"
    /\ UNCHANGED <<coreVars, workerRest, subtitles, i, clips, matches, keep_temp, temp_dir, scratch,
                   segment_files, current_time, manifest, invoked, output, exc>>

\* line 775
TempIsDeleted(keep) == ~keep

\* lines 774-779, the finally of the try of line 735; a pending exception
\* goes on to the except clause, a return or the normal end to the outer finally
Cleanup ==
    /\ pc = "cleanup"
    /\ IF TempIsDeleted(keep_temp)
       THEN /\ temp_dir' = "deleted"
            /\ scratch' = NoFiles
            /\ log' = Append(log, LogLine("INFO", "temp_deleted", 0))
       ELSE /\ UNCHANGED <<temp_dir, scratch>>
            /\ log' = Append(log, LogLine("INFO", "temp_kept", 0))
    /\ pc' = IF exc = "none" THEN "finally" ELSE "except"
    /\ UNCHANGED <<coreVars, workerRest, subtitles, i, clips, matches, keep_temp, engine,
                   segment_files, current_time, manifest, invoked, output, exc>>

\* lines 781-784
Except ==
    /\ pc = "except"
    /\ log' = Append(log, LogLine("ERROR", exc, 0))
    /\ exc' = "none"
    /\ pc' = "finally"
    /\ UNCHANGED <<coreVars, workerRest, subtitles, i, clips, matches, keep_temp, temp_dir, scratch,
                   engine, segment_files, current_time, manifest, invoked, output>>

\* line 787
FinallyFlag ==
    /\ pc = "finally"
    /\ is_processing' = FALSE
    /\ pc' = "finally_start"
    /\ UNCHANGED <<coreVars, guiVars, subtitles, i, clips, matches, keep_temp, temp_dir, scratch,
                   engine, segment_files, current_time, manifest, invoked, output, log, exc>>

\* line 788.  From here on the Start button can be enabled and clicked while
\* this thread has line 789 left to run: the thread is counted in late.
FinallyStart ==
    /\ pc = "finally_start"
    /\ late < MaxLate
    /\ afterq' = Append(afterq, "start_normal")
    /\ late' = late + 1
    /\ pc' = "idle"
    /\ UNCHANGED <<coreVars, is_processing, btn_start, btn_stop, subtitles, i, clips, matches,
                   keep_temp, temp_dir, scratch, engine, segment_files, current_time,
                   manifest, invoked, output, log, exc>>

\* line 789, by a thread that has run line 788
FinallyStop ==
    /\ late > 0
    /\ afterq' = Append(afterq, "stop_disabled")
    /\ late' = late - 1
    /\ UNCHANGED <<coreVars, pc, is_processing, btn_start, btn_stop, subtitles, i, clips, matches,
                   keep_temp, temp_dir, scratch, engine, segment_files, current_time,
                   manifest, invoked, output, log, exc>>

\* ------------------------------------------------------------ specifications
Gui == StartSync \/ StopSync \/ RunAfter

Matching ==
    \/ ParseSrt \/ MatchLoopExit \/ MatchStopped \/ MatchNotFound \/ MatchFound
    \/ ProbeFailed \/ ProbeOk \/ NoMatches

Processing ==
    \/ MakeTempDir \/ ProcLoopExit \/ ProcStopped \/ ProcStart \/ ProcSpin
    \/ ProcDone \/ ProcFailed

Timeline ==
    \/ TimelineBegin \/ TimelineNoGap \/ SilenceStart \/ SilenceDone \/ SilenceFailed
    \/ ConcatStart \/ ConcatDone \/ ConcatFailed

Ending ==
    \/ FinalProbeStart \/ FinalProbeOk \/ FinalProbeFailed \/ Cleanup \/ Except
    \/ FinallyFlag \/ FinallyStart \/ FinallyStop

Next == Gui \/ Matching \/ Processing \/ Timeline \/ Ending

Spec == Init /\ [][Next]_vars

\* ------------------------------------------- create_timeline on any matches
\* The states in which line 753 calls create_timeline, for cue tracks with
\* any windows Ms(a) < Ms(b): cue k is matched with a clip of one of the
\* probed durations, or has no clip (then it keeps the window of its slot).
\* Every match has been processed, as after the loop of lines 740-747.
TimelineWindows ==
    {w \in [start : {Ms(a) : a \in 0..MaxTime}, end : {Ms(a) : a \in 0..MaxTime}] :
        w.start < w.end}

TimelineChoices(k) ==
    {[start |-> w.start, end |-> w.end, dur |-> d] :
        w \in TimelineWindows, d \in ProbeDurations}
    \cup {[start |-> SlotStart(k), end |-> SlotEnd(k), dur |-> 0]}

Processed(m) == [m EXCEPT !.processed_path = ProcessedPath(m.audio_path)]

RECURSIVE MatchesOf(_, _)
MatchesOf(f, n) ==
    IF n = 0 THEN <<>>
    ELSE IF f[n].dur = 0 THEN MatchesOf(f, n - 1)
    ELSE Append(MatchesOf(f, n - 1),
                Processed(AudioMatch(SubtitleLine(n, f[n].start, f[n].end),
                                     AudioPath(n), f[n].dur)))

TimelineInit ==
    \E n \in 1..MaxCues :
      \E f \in [1..n -> UNION {TimelineChoices(k) : k \in 1..n}] :
        /\ \A k \in 1..n : f[k] \in TimelineChoices(k)
        /\ \E k \in 1..n : f[k].dur # 0
        /\ subtitles = [k \in 1..n |-> SubtitleLine(k, f[k].start, f[k].end)]
        /\ clips = [k \in 1..n |->
                      [found |-> f[k].dur # 0, probed |-> f[k].dur # 0, dur |-> f[k].dur]]
        /\ log = [k \in 1..n |->
                    IF f[k].dur = 0 THEN LogLine("WARNING", "no_audio", k)
                    ELSE LogLine("INFO", "matched", k)]
        /\ matches = MatchesOf(f, n)
        /\ scratch = [p \in {m.processed_path : m \in Range(MatchesOf(f, n))} |->
                        ProcessedLen(CHOOSE m \in Range(MatchesOf(f, n)) :
                                         m.processed_path = p)]
        /\ i = Len(MatchesOf(f, n)) + 1
        /\ pc = "timeline"
        /\ is_processing = TRUE
        /\ btn_start = "disabled"
        /\ btn_stop = "normal"
        /\ afterq = <<>>
        /\ late = 0
        /\ keep_temp = FALSE
        /\ temp_dir = "exists"
        /\ engine = NoJob
        /\ segment_files = <<>>
        /\ current_time = 0
        /\ manifest = <<>>
        /\ invoked = {"probe", "process"}
        /\ output = <<>>
        /\ exc = "none"
        /\ CoreIdle

SpecTimeline == TimelineInit /\ [][Timeline]_vars

\* ------------------------------------ the per-clip jobs on any cue track
\* The states in which line 725 is reached with every cue matched, for
\* tracks as parse_srt_file returns them: in ascending order of index, where
\* two cues can have the same index (line 167 sorts, nothing removes a
\* repeated index).  find_audio_for_subtitle is a function of the index and
\* the directory, so cues of the same index get the same clip.
IndexLists ==
    {l \in UNION {[1..n -> 1..MaxIndex] : n \in 1..MaxCues} :
        \A j, k \in 1..Len(l) : j < k => l[j] <= l[k]}

PathsInit ==
    \E l \in IndexLists :
      \E d \in [1..Len(l) -> ProbeDurations] :
        LET subs == [k \in 1..Len(l) |-> SubtitleLine(l[k], SlotStart(k), SlotEnd(k))] IN
        /\ subtitles = subs
        /\ clips = [k \in 1..Len(l) |-> [found |-> TRUE, probed |-> TRUE, dur |-> d[k]]]
        /\ log = [k \in 1..Len(l) |-> LogLine("INFO", "matched", l[k])]
        /\ matches = [k \in 1..Len(l) |-> AudioMatch(subs[k], AudioPath(l[k]), d[k])]
        /\ i = Len(l) + 1
        /\ pc = "post_match"
        /\ is_processing = TRUE
        /\ btn_start = "disabled"
        /\ btn_stop = "normal"
        /\ afterq = <<>>
        /\ late = 0
        /\ keep_temp = FALSE
        /\ temp_dir = "none"
        /\ scratch = NoFiles
        /\ engine = NoJob
        /\ segment_files = <<>>
        /\ current_time = 0
        /\ manifest = <<>>
        /\ invoked = {"probe"}
        /\ output = <<>>
        /\ exc = "none"
        /\ CoreIdle

Jobs ==
    \/ MakeTempDir \/ ProcLoopExit \/ ProcStart \/ ProcDone \/ ProcFailed
    \/ Timeline

SpecPaths == PathsInit /\ [][Jobs]_vars

\* ------------------------------------- process_audio_speed, lines 286-298
\* Comparisons and arithmetic of a speed kept as <<numerator, denominator>>.
\* Dividing a float by 2.0 or by 0.5 is exact.
Above2(q) == IF q[2] > 0 THEN q[1] > 2 * q[2] ELSE q[1] < 2 * q[2]
Below05(q) == IF q[2] > 0 THEN 2 * q[1] < q[2] ELSE 2 * q[1] > q[2]
Halved(q) == <<q[1], 2 * q[2]>>
Doubled(q) == <<2 * q[1], q[2]>>

\* The stages as written to the filter string, each as a quotient.
ATEMPO_2 == <<2, 1>>
ATEMPO_05 == <<1, 2>>
MICRO == 1000000

\* (variant: the remainder is cut after the sixth digit instead of rounded)
Format6fCut(q) ==
    LET n == IF q[2] > 0 THEN q[1] ELSE -q[1]
        d == IF q[2] > 0 THEN q[2] ELSE -q[2]
    IN {(n * MICRO) \div d}

\* f"{speed:.6f}", line 297: the decimal with six digits nearest to the
\* speed, in millionths.  When the quotient lies exactly between two of them
\* the digit depends on the rounding of the float division of line 710:
\* both are possible.
Format6f(q) ==
    LET n == IF q[2] > 0 THEN q[1] ELSE -q[1]
        d == IF q[2] > 0 THEN q[2] ELSE -q[2]
        lo == (n * MICRO) \div d
        r2 == 2 * ((n * MICRO) % d)
    IN IF r2 < d THEN {lo} ELSE IF r2 > d THEN {lo + 1} ELSE {lo, lo + 1}

\* The states in which line 746 calls process_audio_speed for a match that
\* needs the speed-up, after lines 286-287: the match was built by lines
\* 709-718 from a cue of any duration but zero (line 710 raises for zero) and
\* a clip of positive duration.
AtempoInit ==
    \E a \in 1..MaxClip, d \in (-MaxDur..MaxDur) \ {0} :
        LET sub == SubtitleLine(1, IF d < 0 THEN -d ELSE 0, IF d < 0 THEN 0 ELSE d)
            m == AudioMatch(sub, AudioPath(1), a)
        IN /\ m.needs_speedup
           /\ subtitles = <<sub>>
           /\ clips = <<[found |-> TRUE, probed |-> TRUE, dur |-> a]>>
           /\ log = <<LogLine("INFO", "matched", 1)>>
           /\ matches = <<m>>
           /\ i = 1
           /\ speed = m.speed_factor
           /\ atempo_filters = <<>>
           /\ pc = "atempo_halve"
           /\ is_processing = TRUE
           /\ btn_start = "disabled"
           /\ btn_stop = "normal"
           /\ afterq = <<>>
           /\ late = 0
           /\ keep_temp = FALSE
           /\ temp_dir = "exists"
           /\ scratch = NoFiles
           /\ engine = NoJob
           /\ segment_files = <<>>
           /\ current_time = 0
           /\ manifest = <<>>
           /\ invoked = {"probe"}
           /\ output = <<>>
           /\ exc = "none"
           /\ content = <<>>
           /\ audio_dir = NoDir
           /\ audio_path = NoName

\* What process_audio_speed leaves alone while it builds the filter string.
atempoRest ==
    <<is_processing, btn_start, btn_stop, afterq, late, subtitles, i, clips, matches,
      keep_temp, temp_dir, scratch, engine, segment_files, current_time, manifest,
      invoked, output, log, exc, content, audio_dir, audio_path>>

\* lines 289-291
AtempoHalve ==
    /\ pc = "atempo_halve"
    /\ Above2(speed)
    /\ atempo_filters' = Append(atempo_filters, ATEMPO_2)
    /\ speed' = Halved(speed)
    /\ UNCHANGED <<pc, atempoRest>>

\* line 289: the first loop ends
AtempoHalved ==
    /\ pc = "atempo_halve"
    /\ ~Above2(speed)
    /\ pc' = "atempo_double"
    /\ UNCHANGED <<speed, atempo_filters, atempoRest>>

\* lines 293-295; followed for MaxStages turns
AtempoDouble ==
    /\ pc = "atempo_double"
    /\ Below05(speed)
    /\ Len(atempo_filters) < MaxStages
    /\ atempo_filters' = Append(atempo_filters, ATEMPO_05)
    /\ speed' = Doubled(speed)
    /\ UNCHANGED <<pc, atempoRest>>

\* lines 293, 297-298: the second loop ends and the remainder is written
AtempoLast ==
    /\ pc = "atempo_double"
    /\ ~Below05(speed)
    /\ \E u \in Format6f(speed) : atempo_filters' = Append(atempo_filters, <<u, MICRO>>)
    /\ pc' = "atempo_done"
    /\ UNCHANGED <<speed, atempoRest>>

Atempo == AtempoHalve \/ AtempoHalved \/ AtempoDouble \/ AtempoLast

SpecAtempo == AtempoInit /\ [][Atempo]_vars

\* ------------------------------------------ parse_srt_file, lines 142-168
\* A timestamp as the groups of the pattern of line 130.
TimeStamp(h, m, sec, ms) == [h |-> h, m |-> m, s |-> sec, ms |-> ms]

\* parse_srt_time, lines 138-139, in milliseconds
parse_srt_time(t) == (t.h * 3600 + t.m * 60 + t.s) * 1000 + t.ms

\* The blocks the pattern of line 149 finds in a file: any index, any two
\* timestamps (the pattern relates neither the indexes of the blocks nor
\* the two timestamps of a block).
TimeStamps == {TimeStamp(0, 0, 0, 0), TimeStamp(0, 0, 0, 4), TimeStamp(0, 1, 0, 0)}
Blocks == [index : 1..MaxIndex, start : TimeStamps, end : TimeStamps]
Contents == UNION {[1..n -> Blocks] : n \in 0..MaxCues}

\* The states in which parse_srt_file has read the file and found its
\* blocks (lines 144-150), called by line 677.
ParseInit ==
    \E c \in Contents :
        /\ content = c
        /\ subtitles = <<>>
        /\ i = 1
        /\ pc = "parse_blocks"
        /\ is_processing = TRUE
        /\ btn_start = "disabled"
        /\ btn_stop = "normal"
        /\ afterq = <<>>
        /\ late = 0
        /\ clips = <<>>
        /\ matches = <<>>
        /\ keep_temp = FALSE
        /\ temp_dir = "none"
        /\ scratch = NoFiles
        /\ engine = NoJob
        /\ segment_files = <<>>
        /\ current_time = 0
        /\ manifest = <<>>
        /\ invoked = {}
        /\ output = <<>>
        /\ log = <<>>
        /\ exc = "none"
        /\ audio_dir = NoDir
        /\ audio_path = NoName
        /\ speed = <<1, 1>>
        /\ atempo_filters = <<>>

parseRest ==
    <<is_processing, btn_start, btn_stop, afterq, late, clips, matches, keep_temp,
      temp_dir, scratch, engine, segment_files, current_time, manifest, invoked,
      output, log, exc, content, audio_dir, audio_path, speed, atempo_filters>>

\* lines 152-165: one SubtitleLine per block, in file order
ParseBlock ==
    /\ pc = "parse_blocks"
    /\ i <= Len(content)
    /\ subtitles' = Append(subtitles,
                           SubtitleLine(content[i].index, parse_srt_time(content[i].start),
                                        parse_srt_time(content[i].end)))
    /\ i' = i + 1
    /\ UNCHANGED <<pc, parseRest>>

\* lines 167-168
ParseSort ==
    /\ pc = "parse_blocks"
    /\ i > Len(content)
    /\ subtitles' = SortByIndex(subtitles)
    /\ pc' = "parsed"
    /\ UNCHANGED <<i, parseRest>>

Parse == ParseBlock \/ ParseSort

SpecParse == ParseInit /\ [][Parse]_vars

\* ---------------------------------- find_audio_for_subtitle, lines 183-270
\* A file name is the sequence of its characters.
DIGITS == <<"0", "1", "2", "3", "4", "5", "6", "7", "8", "9">>
LOWERCASE == <<"a", "b", "c", "d", "e", "f", "g", "h", "i", "j", "k", "l", "m",
               "n", "o", "p", "q", "r", "s", "t", "u", "v", "w", "x", "y", "z">>
UPPERCASE == <<"A", "B", "C", "D", "E", "F", "G", "H", "I", "J", "K", "L", "M",
               "N", "O", "P", "Q", "R", "S", "T", "U", "V", "W", "X", "Y", "Z">>

\* str.lower and str.upper, character by character
LowerChar(c) ==
    IF \E k \in 1..26 : UPPERCASE[k] = c
    THEN LOWERCASE[CHOOSE k \in 1..26 : UPPERCASE[k] = c] ELSE c
UpperChar(c) ==
    IF \E k \in 1..26 : LOWERCASE[k] = c
    THEN UPPERCASE[CHOOSE k \in 1..26 : LOWERCASE[k] = c] ELSE c
Lower(t) == [k \in 1..Len(t) |-> LowerChar(t[k])]
Upper(t) == [k \in 1..Len(t) |-> UpperChar(t[k])]

\* str(index)
RECURSIVE Str(_)
Str(n) == IF n < 10 THEN <<DIGITS[n + 1]>> ELSE Str(n \div 10) \o <<DIGITS[(n % 10) + 1]>>

\* str.zfill
RECURSIVE zfill(_, _)
zfill(t, width) == IF Len(t) >= width THEN t ELSE zfill(<<"0">> \o t, width)

\* str.startswith, str.endswith
startswith(t, prefix) ==
    Len(prefix) <= Len(t) /\ SubSeq(t, 1, Len(prefix)) = prefix
endswith(t, suffix) ==
    Len(suffix) <= Len(t) /\ SubSeq(t, Len(t) - Len(suffix) + 1, Len(t)) = suffix

\* os.path.splitext: the extension starts at the last dot, unless only dots
\* precede it; <<name_without_ext, ext>>
splitext(filename) ==
    LET dots == {k \in 1..Len(filename) : filename[k] = "."}
        last == CHOOSE k \in dots : \A j \in dots : j <= k
    IN IF dots = {} \/ (\A j \in 1..(last - 1) : filename[j] = ".")
       THEN <<filename, <<>>>>
       ELSE <<SubSeq(filename, 1, last - 1), SubSeq(filename, last, Len(filename))>>

\* lines 195-199
audio_extensions ==
    {<<".">> \o e : e \in
        {<<"w", "a", "v">>,
         <<"m", "p", "3">>,
         <<"m", "4", "a">>,
         <<"a", "a", "c">>,
         <<"f", "l", "a", "c">>,
         <<"o", "g", "g">>,
         <<"w", "m", "a">>,
         <<"o", "p", "u", "s">>,
         <<"w", "e", "b", "m">>,
         <<"a", "m", "r">>,
         <<"3", "g", "p">>,
         <<"a", "p", "e">>,
         <<"a", "l", "a", "c">>,
         <<"a", "i", "f", "f">>,
         <<"a", "i", "f">>,
         <<"a", "u">>,
         <<"r", "a">>,
         <<"m", "i", "d">>,
         <<"m", "i", "d", "i">>}}

\* line 240
extensions_list ==
    <<<<"w", "a", "v">>,
      <<"m", "p", "3">>,
      <<"m", "4", "a">>,
      <<"a", "a", "c">>,
      <<"f", "l", "a", "c">>,
      <<"o", "g", "g">>,
      <<"w", "m", "a">>,
      <<"o", "p", "u", "s">>,
      <<"w", "e", "b", "m">>,
      <<"a", "m", "r">>,
      <<"3", "g", "p">>>>

\* lines 202-206
index_formats(index) == <<zfill(Str(index), 4), zfill(Str(index), 3), Str(index)>>

\* lines 217-234: the entry is a file, has an audio extension, and its name
\* without extension is index_str or starts with index_str + "_"
ScanMatches(entry, index_str) ==
    /\ entry.isfile
    /\ Lower(splitext(entry.name)[2]) \in audio_extensions
    /\ \/ splitext(entry.name)[1] = index_str
       \/ startswith(splitext(entry.name)[1], index_str \o <<"_">>)

\* lines 213-234 for one index_str: the first entry of the listing that matches
ScanFor(all_files, index_str) ==
    IF \E k \in 1..Len(all_files) : ScanMatches(all_files[k], index_str)
    THEN all_files[CHOOSE k \in 1..Len(all_files) :
                       /\ ScanMatches(all_files[k], index_str)
                       /\ \A j \in 1..(k - 1) : ~ScanMatches(all_files[j], index_str)].name
    ELSE NoName

\* (variant: the two loops of lines 212-213 exchanged)
ScanDirectoryByFile(all_files, formats) ==
    IF \E k \in 1..Len(all_files), f \in 1..Len(formats) : ScanMatches(all_files[k], formats[f])
    THEN all_files[CHOOSE k \in 1..Len(all_files) :
                       /\ \E f \in 1..Len(formats) : ScanMatches(all_files[k], formats[f])
                       /\ \A j \in 1..(k - 1), f \in 1..Len(formats) :
                              ~ScanMatches(all_files[j], formats[f])].name
    ELSE NoName

\* lines 212-234: the representations in order, the listing once for each
RECURSIVE ScanDirectory(_, _)
ScanDirectory(all_files, formats) ==
    IF formats = <<>> THEN NoName
    ELSE LET hit == ScanFor(all_files, Head(formats))
         IN IF hit # NoName THEN hit ELSE ScanDirectory(all_files, Tail(formats))

\* os.path.exists (true of directories too) and glob.glob, which lists the
\* directory and so finds nothing in one that cannot be listed.  The names
\* are compared as they are (a case-sensitive file system).
Entries(dir) == Range(dir.files)
Exists(dir, name) == \E e \in Entries(dir) : e.name = name
GlobSuffix(dir, index_str, ext) ==
    IF dir.listdir_ok
    THEN {e.name : e \in {x \in Entries(dir) :
              /\ startswith(x.name, index_str \o <<"_">>)
              /\ endswith(x.name, <<".">> \o ext)
              /\ Len(x.name) >= Len(index_str) + Len(ext) + 2}}
    ELSE {}
\* (variant: the pattern of line 262 without its dot)
GlobAnyPrefix(dir, index_str) ==
    IF dir.listdir_ok
    THEN {x \in Entries(dir) : startswith(x.name, index_str)}
    ELSE {}

\* line 263: glob of index_str + ".*"
GlobAnyExt(dir, index_str) ==
    IF dir.listdir_ok
    THEN {x \in Entries(dir) : startswith(x.name, index_str \o <<".">>)}
    ELSE {}

\* lines 246-259 for one extension: the names that can be returned (glob
\* gives its matches in any order, and the first is taken)
ExtHits(dir, index_str, ext) ==
    IF Exists(dir, index_str \o <<".">> \o ext) THEN {index_str \o <<".">> \o ext}
    ELSE IF Exists(dir, index_str \o <<".">> \o Upper(ext))
         THEN {index_str \o <<".">> \o Upper(ext)}
         ELSE GlobSuffix(dir, index_str, ext)

\* lines 244-259: the first extension of the list with a hit
RECURSIVE FirstExtHits(_, _, _)
FirstExtHits(dir, index_str, k) ==
    IF k > Len(extensions_list) THEN {}
    ELSE LET hits == ExtHits(dir, index_str, extensions_list[k])
         IN IF hits # {} THEN hits ELSE FirstExtHits(dir, index_str, k + 1)

\* lines 262-268
WildcardHits(dir, index_str) ==
    {x.name : x \in {e \in GlobAnyExt(dir, index_str) :
                        e.isfile /\ Lower(splitext(e.name)[2]) \in audio_extensions}}

\* lines 242-270: the names the fallback can return; NoName is None
RECURSIVE Fallback(_, _)
Fallback(dir, formats) ==
    IF formats = <<>> THEN {NoName}
    ELSE LET hits == FirstExtHits(dir, Head(formats), 1)
             wild == WildcardHits(dir, Head(formats))
         IN IF hits # {} THEN hits
            ELSE IF wild # {} THEN wild ELSE Fallback(dir, Tail(formats))

\* The entries a directory is filled from: clips named after cue 1 in each
\* representation, with a suffix, with an upper-case extension, with two
\* extensions; a directory with the name of a clip; a clip of cue 2; a file
\* that is no audio; a name that starts like a representation of cue 1.
File(name) == [name |-> name, isfile |-> TRUE]
Directory(name) == [name |-> name, isfile |-> FALSE]
DirEntries ==
    {File(<<"0", "0", "0", "1", ".", "w", "a", "v">>),
     File(<<"0", "0", "1", "_", "x", ".", "w", "a", "v">>),
     File(<<"1", ".", "M", "P", "3">>),
     File(<<"0", "0", "0", "1", ".", "t", "a", "r", ".", "w", "a", "v">>),
     Directory(<<"0", "0", "1", ".", "w", "a", "v">>),
     File(<<"0", "0", "0", "2", ".", "w", "a", "v">>),
     File(<<"1", "_", "x", ".", "t", "x", "t">>),
     File(<<"1", "0", ".", "w", "a", "v">>),
     File(<<"2", ".", "a", ".", "o", "g", "g">>)}

Listings ==
    {l \in UNION {[1..n -> DirEntries] : n \in 0..MaxFiles} :
        \A j, k \in 1..Len(l) : j # k => l[j].name # l[k].name}

\* The states in which line 697 calls find_audio_for_subtitle for the first
\* cue of a track: any index, any directory, listed in any order, that
\* os.listdir can or cannot read.
LocateInit ==
    \E index \in 1..MaxIndex, l \in Listings, ok \in BOOLEAN :
        /\ subtitles = <<SubtitleLine(index, SlotStart(1), SlotEnd(1))>>
        /\ i = 1
        /\ audio_dir = [listdir_ok |-> ok, files |-> l]
        /\ audio_path = NoName
        /\ pc = "scan"
        /\ is_processing = TRUE
        /\ btn_start = "disabled"
        /\ btn_stop = "normal"
        /\ afterq = <<>>
        /\ late = 0
        /\ clips = <<>>
        /\ matches = <<>>
        /\ keep_temp = FALSE
        /\ temp_dir = "none"
        /\ scratch = NoFiles
        /\ engine = NoJob
        /\ segment_files = <<>>
        /\ current_time = 0
        /\ manifest = <<>>
        /\ invoked = {}
        /\ output = <<>>
        /\ log = <<>>
        /\ exc = "none"
        /\ content = <<>>
        /\ speed = <<1, 1>>
        /\ atempo_filters = <<>>

locateRest ==
    <<is_processing, btn_start, btn_stop, afterq, late, subtitles, i, clips, matches,
      keep_temp, temp_dir, scratch, engine, segment_files, current_time, manifest,
      invoked, output, log, exc, content, audio_dir, speed, atempo_filters>>

\* lines 209-234: the scan returns the name it finds
ScanFound ==
    /\ pc = "scan"
    /\ audio_dir.listdir_ok
    /\ ScanDirectory(audio_dir.files, index_formats(subtitles[i].index)) # NoName
    /\ audio_path' = ScanDirectory(audio_dir.files, index_formats(subtitles[i].index))
    /\ pc' = "located"
    /\ UNCHANGED locateRest

\* lines 209-237: os.listdir raises, or the scan finds nothing
ScanNothing ==
    /\ pc = "scan"
    /\ \/ ~audio_dir.listdir_ok
       \/ ScanDirectory(audio_dir.files, index_formats(subtitles[i].index)) = NoName
    /\ pc' = "fallback"
    /\ UNCHANGED <<audio_path, locateRest>>

\* lines 239-270
FallbackReturns ==
    /\ pc = "fallback"
    /\ audio_path' \in Fallback(audio_dir, index_formats(subtitles[i].index))
    /\ pc' = "located"
    /\ UNCHANGED locateRest

Locate == ScanFound \/ ScanNothing \/ FallbackReturns

SpecLocate == LocateInit /\ [][Locate]_vars

\* ================================================================== claims
\* Shared vocabulary of the claims about create_timeline.  The matches are
\* read after the sort of line 328.
InTimeline == pc \in {"tl_loop", "silence_wait", "concat_wait", "tl_return"}

PrevEnd(k) == IF k = 1 THEN 0 ELSE matches[k - 1].subtitle.end_time
GapOf(k) == matches[k].subtitle.start_time - PrevEnd(k)

\* The segments the walk owes for the first n matches.
RECURSIVE ExpectedSegments(_)
ExpectedSegments(n) ==
    IF n = 0 THEN <<>>
    ELSE ExpectedSegments(n - 1)
         \o (IF GapOf(n) > EPS_MS THEN <<SilencePath(n - 1)>> ELSE <<>>)
         \o <<matches[n].processed_path>>

ClipLength(m) == scratch[m.processed_path]
AllClipsFit == \A k \in 1..Len(matches) : ClipLength(matches[k]) <= matches[k].subtitle.duration
AllClipsExact == \A k \in 1..Len(matches) : ClipLength(matches[k]) = matches[k].subtitle.duration
HasSilence == \E j \in 1..Len(manifest) : manifest[j].k = "silence"

\* C1: in the assembled track, the durations of all segments up to and
\* including the clip of matched cue k add up to that cue's end_time, for
\* every matched cue, whenever no processed clip is longer than its cue.
C1_CumulativeEqualsEnd ==
    (pc = "tl_return" /\ AllClipsFit) =>
        \A k \in 1..Len(matches) : \A j \in 1..Len(manifest) :
            manifest[j] = matches[k].processed_path =>
                SumSeq(SubSeq(output, 1, j)) = matches[k].subtitle.end_time

\* C2: create_timeline walks the matches in start-time order from
\* current_time 0; each match gets a silence of exactly start_time -
\* current_time if and only if that gap exceeds 0.01 s, then its processed
\* clip, and current_time becomes the cue's end_time; the manifest lists
\* exactly these segments in this order.
C2_TimelineWalk ==
    InTimeline =>
        /\ \A a, b \in 1..Len(matches) :
              a < b => matches[a].subtitle.start_time <= matches[b].subtitle.start_time
        /\ {m.subtitle.index : m \in Range(matches)}
              = {subtitles[k].index : k \in {c \in 1..Len(clips) : clips[c].probed}}
        /\ current_time = PrevEnd(i)
        /\ segment_files = ExpectedSegments(i - 1)
        /\ \A k \in 1..(i - 1) : GapOf(k) > EPS_MS => scratch[SilencePath(k - 1)] = GapOf(k)
        /\ pc \in {"concat_wait", "tl_return"} => manifest = ExpectedSegments(Len(matches))
        /\ pc = "tl_return" => Len(output) = Len(manifest)

C2_Witness ==
    /\ pc = "tl_return"
    /\ Len(matches) >= 2
    /\ HasSilence
    /\ \E k \in 1..Len(matches) : GapOf(k) > 0 /\ GapOf(k) <= EPS_MS

CleanGaps == \A k \in 1..Len(matches) : GapOf(k) = 0 \/ GapOf(k) > EPS_MS

Logged(level, msg) == \E n \in 1..Len(log) : log[n].level = level /\ log[n].msg = msg
LoggedFor(level, msg, idx) == \E n \in 1..Len(log) : log[n] = LogLine(level, msg, idx)
SuccessReported == \E n \in 1..Len(log) : log[n].level = "SUCCESS"
FatalReported ==
    \E n \in 1..Len(log) : log[n].level = "ERROR" /\ log[n].msg # "probe_error"
StopObserved == Logged("WARNING", "stopped")

\* The worker has returned from _sync_thread's body (every run logs a line).
RunEnded == pc = "idle" /\ log # <<>>
EndingPcs == {"cleanup", "except", "finally", "finally_start", "idle"}

\* C4 as stated: a failure of the engine on one matched clip does not abort
\* the batch: the run that logged it still goes on to assemble (it starts
\* the concat job).
C4_ClipFailureKeepsBatch ==
    (RunEnded /\ Logged("ERROR", "process")) => "concat" \in invoked

\* The cues among the first n whose clip was found and probed, in order.
RECURSIVE ProbedCues(_)
ProbedCues(n) ==
    IF n = 0 THEN <<>>
    ELSE IF clips[n].probed THEN Append(ProbedCues(n - 1), subtitles[n])
    ELSE ProbedCues(n - 1)

\* The step that finds no clip (lines 699-701) and the step in which the
\* probe fails (lines 705-707): one log line, no match, on to the next cue.
C5_DropStep ==
    /\ (pc = "match_loop" /\ Len(clips') = Len(clips) + 1 /\ ~clips'[Len(clips')].found)
          => /\ matches' = matches
             /\ log' = Append(log, LogLine("WARNING", "no_audio", subtitles[i].index))
             /\ pc' = "match_loop" /\ i' = i + 1
    /\ (pc = "probe_wait" /\ pc' # "probe_wait" /\ ~clips'[i].probed)
          => /\ matches' = matches
             /\ log' = Append(log, LogLine("ERROR", "probe_error", subtitles[i].index))
             /\ pc' = "match_loop" /\ i' = i + 1

\* What holds at the head of the matching loop and after it.
C5_LoopState ==
    pc \in {"match_loop", "post_match"} =>
        /\ Len(clips) = i - 1
        /\ [k \in 1..Len(matches) |-> matches[k].subtitle] = ProbedCues(i - 1)
        /\ \A k \in 1..(i - 1) :
              /\ ~clips[k].found => LoggedFor("WARNING", "no_audio", subtitles[k].index)
              /\ (clips[k].found /\ ~clips[k].probed)
                    => LoggedFor("ERROR", "probe_error", subtitles[k].index)
        /\ pc = "post_match" => i = Len(subtitles) + 1

\* C5: in the matching loop a cue without clip file, or whose clip fails the
\* probe, yields a log line and no match, and the loop goes on with the next
\* cue; at every turn of the loop the matches are exactly the visited cues
\* whose clip was found and probed, and when the loop ends every cue has
\* been visited.
C5_DropAndContinue == [](C5_LoopState) /\ [][C5_DropStep]_vars

C5_Witness ==
    /\ pc = "post_match"
    /\ Len(subtitles) >= 2
    /\ ~clips[1].probed
    /\ clips[Len(clips)].probed

\* The run found no cue, or left the matching loop with no match.
ZeroCues == subtitles = <<>> /\ pc # "parse" /\ (pc # "idle" \/ log # <<>>)
ZeroMatches ==
    /\ subtitles # <<>>
    /\ Len(clips) = Len(subtitles)
    /\ \A k \in 1..Len(clips) : ~clips[k].probed
    /\ pc \notin {"match_loop", "probe_wait", "post_match"}

\* C6: a run whose track has no cue, or that is left with no match, ends
\* with a fatal error: the concat job is never started, no output is
\* written and success is never reported.
C6_EmptyIsFatal ==
    (ZeroCues \/ ZeroMatches) =>
        /\ pc \in {"except", "finally", "finally_start", "idle"}
        /\ pc = "except" => exc \in {"no_subtitles", "no_match"}
        /\ pc # "except" => FatalReported
        /\ "concat" \notin invoked /\ manifest = <<>> /\ output = <<>>
        /\ ~SuccessReported

C6_Witness ==
    /\ RunEnded /\ ZeroMatches
    /\ Len(subtitles) >= 2
    /\ Logged("ERROR", "no_match")

\* C7: once the scratch directory exists, the run cannot get past the inner
\* finally without deleting it, unless scratch files are kept, and then it is
\* never deleted.
C7_ScratchRemoved ==
    /\ (temp_dir # "none" /\ pc \in {"except", "finally", "finally_start", "idle"})
          => (temp_dir = "deleted" <=> ~keep_temp)
    /\ keep_temp => temp_dir # "deleted"

C7_Witness ==
    /\ RunEnded
    /\ temp_dir = "deleted"
    /\ Logged("ERROR", "process")

\* A step of the worker (the GUI handlers leave these alone while it runs).
WorkerStep == <<pc, i, clips, engine, log>>' # <<pc, i, clips, engine, log>>

AtStopCheck ==
    \/ pc = "match_loop" /\ i <= Len(subtitles)
    \/ pc = "proc_loop" /\ i <= Len(matches)

\* The worker's step from a test of the flag that finds it cleared, and every
\* step once the stop has been logged.
C8_CheckStep ==
    /\ (AtStopCheck /\ ~is_processing /\ WorkerStep)
          => /\ log' = Append(log, LogLine("WARNING", "stopped", 0))
             /\ pc' \in {"cleanup", "finally"}
             /\ engine' = NoJob /\ invoked' = invoked /\ clips' = clips
    /\ (StopObserved /\ pc' # "parse")
          => engine' = NoJob /\ invoked' = invoked /\ clips' = clips /\ matches' = matches

\* The states after the stop has been logged.
C8_AfterStop ==
    StopObserved =>
        /\ pc \in {"cleanup", "finally", "finally_start", "idle"}
        /\ engine = NoJob /\ exc = "none"
        /\ "concat" \notin invoked /\ manifest = <<>> /\ output = <<>>
        /\ ~SuccessReported

\* C8: the stop flag is tested before each cue of the matching loop and
\* before each per-clip job; when the test finds a stop requested, the run
\* ends: that job and every later locate, probe or processing job is not
\* started, assembly is not invoked and success is not reported.
C8_StopIsHonoured == [](C8_AfterStop) /\ [][C8_CheckStep]_vars

C8_Witness ==
    /\ RunEnded /\ StopObserved
    /\ Len(matches) >= 2
    /\ matches[1].processed_path # NoPath
    /\ matches[2].processed_path = NoPath

\* The return of a job that was in flight when the stop was requested: it
\* did not complete (no probed duration, no file written, no output), so
\* nothing it produced enters the run's state.
C9_StopStep ==
    (engine # NoJob /\ ~is_processing /\ engine' = NoJob)
        => /\ matches' = matches /\ clips' = clips /\ scratch' = scratch
           /\ segment_files' = segment_files /\ output' = output
           /\ pc' # "tl_return"
           /\ Len(log') > Len(log) => log'[Len(log) + 1].msg # "total_duration"

\* C9 as stated: a job in flight when the stop is requested is terminated,
\* not left to run to completion, and its result is not used to continue
\* the run.
C9_StopEndsJobInFlight == [][C9_StopStep]_vars

\* C10: create_timeline is entered, and runs, only when the per-clip job of
\* every match has returned: no processing job is pending or in flight and
\* every match has its processed_path, naming a file of the scratch
\* directory.
C10_BarrierBeforeTimeline ==
    (pc = "timeline" \/ InTimeline) =>
        /\ engine.kind # "process"
        /\ pc = "timeline" => i = Len(matches) + 1 /\ engine = NoJob
        /\ \A k \in 1..Len(matches) :
              /\ matches[k].processed_path # NoPath
              /\ matches[k].processed_path \in DOMAIN scratch

C10_Witness ==
    /\ pc = "timeline"
    /\ Len(matches) >= 2
    /\ \E k \in 1..Len(matches) : matches[k].needs_speedup

\* A quotient kept as <<numerator, denominator>> is at least 1.
AtLeastOne(q) == IF q[2] > 0 THEN q[1] >= q[2] ELSE q[1] <= q[2]

\* The same quotient: cross-multiplication.
SameQuotient(q, r) == q[1] * r[2] = r[1] * q[2]

\* C11 as stated: every match the run creates has needs_speedup exactly when
\* the clip is longer than the cue, speed_factor equal to audio_duration /
\* duration when it needs the speed-up and to 1.0 otherwise, and a
\* speed_factor that is at least 1.0, whatever cue was parsed.
C11_SpeedFactorRule ==
    \A k \in 1..Len(matches) :
        LET m == matches[k] IN
        /\ m.needs_speedup <=> (m.audio_duration > m.subtitle.duration)
        /\ m.needs_speedup =>
               SameQuotient(m.speed_factor, <<m.audio_duration, m.subtitle.duration>>)
        /\ ~m.needs_speedup => m.speed_factor = <<1, 1>>
        /\ AtLeastOne(m.speed_factor)

\* Shared vocabulary of the claims about the filter chain.
RECURSIVE ProductOf(_)
ProductOf(stages) ==
    IF stages = <<>> THEN <<1, 1>>
    ELSE LET rest == ProductOf(Tail(stages))
         IN <<Head(stages)[1] * rest[1], Head(stages)[2] * rest[2]>>

Abs(x) == IF x < 0 THEN -x ELSE x

\* | q - r | <= t / 10^6, for quotients q, r that are that near
WithinMicros(q, r, t) ==
    Abs(q[1] * r[2] - r[1] * q[2]) * MICRO <= t * Abs(q[2] * r[2])

\* | q - r | <= t / (2 * 10^6)
WithinHalfMicros(q, r, t) ==
    2 * Abs(q[1] * r[2] - r[1] * q[2]) * MICRO <= t * Abs(q[2] * r[2])

ChainEmitted == pc = "atempo_done"
LastStage == atempo_filters[Len(atempo_filters)]
FrontStages == SubSeq(atempo_filters, 1, Len(atempo_filters) - 1)

\* The shape of the chain: stages of exactly 2.0, one per halving while the
\* rest exceeds 2.0, then the rest with six digits; every stage in [0.5, 2.0].
ChainShape ==
    /\ Len(atempo_filters) >= 1
    /\ \A k \in 1..(Len(atempo_filters) - 1) :
           /\ atempo_filters[k] = ATEMPO_2
           /\ Above2(<<matches[i].speed_factor[1],
                       matches[i].speed_factor[2] * ProductOf(SubSeq(atempo_filters, 1, k - 1))[1]>>)
    /\ LastStage[2] = MICRO
    /\ LastStage[1] \in Format6f(<<matches[i].speed_factor[1],
                                   matches[i].speed_factor[2] * ProductOf(FrontStages)[1]>>)
    /\ ~Above2(<<matches[i].speed_factor[1],
                 matches[i].speed_factor[2] * ProductOf(FrontStages)[1]>>)
    /\ \A k \in 1..Len(atempo_filters) :
           /\ 2 * atempo_filters[k][1] >= atempo_filters[k][2]
           /\ atempo_filters[k][1] <= 2 * atempo_filters[k][2]

\* C12 as stated: the chain has that shape and the product of its stages
\* equals the original speed_factor within 1e-6.
C12_ChainProduct ==
    ChainEmitted =>
        /\ ChainShape
        /\ WithinMicros(ProductOf(atempo_filters), matches[i].speed_factor, 1)

\* C12, amended: the chain has that shape and the product of its stages
\* equals the original speed_factor within half a millionth for each unit of
\* the product of the stages before the last (0.5e-6 * 2^n for n stages of 2.0).
C12_ChainProductScaled ==
    ChainEmitted =>
        /\ ChainShape
        /\ WithinHalfMicros(ProductOf(atempo_filters), matches[i].speed_factor,
                            ProductOf(FrontStages)[1])

\* A chain with two stages of 2.0 whose last stage was rounded.
C12_Witness ==
    /\ ChainEmitted
    /\ Len(atempo_filters) >= 3
    /\ ProductOf(atempo_filters)[1] * matches[i].speed_factor[2]
           # matches[i].speed_factor[1] * ProductOf(atempo_filters)[2]

\* C17 as stated: the loops of lines 289-295 end for every speed_factor the
\* matching loop hands over, so the job reaches the engine call: no job is
\* still inside the second loop, with a speed below 0.5, after MaxStages
\* turns (no speed-up of the clips and cues followed needs that many).
C17_LoopsTerminate ==
    ~(pc = "atempo_double" /\ Below05(speed) /\ Len(atempo_filters) >= MaxStages)

\* Shared vocabulary of the claims about find_audio_for_subtitle.
Located == pc = "located"
CueIndex == subtitles[i].index
Representation(index, rank) ==
    IF rank = 1 THEN zfill(Str(index), 4)
    ELSE IF rank = 2 THEN zfill(Str(index), 3) ELSE Str(index)

\* A whitelisted audio file that matches a representation: its name without
\* extension is the representation or starts with the representation and "_".
IsAudioFile(entry) ==
    entry.isfile /\ Lower(splitext(entry.name)[2]) \in audio_extensions
NameFits(name, index, rank) ==
    \/ splitext(name)[1] = Representation(index, rank)
    \/ startswith(splitext(name)[1], Representation(index, rank) \o <<"_">>)
HasMatch(rank) ==
    \E e \in Entries(audio_dir) : IsAudioFile(e) /\ NameFits(e.name, CueIndex, rank)
ReturnedEntry == CHOOSE e \in Entries(audio_dir) : e.name = audio_path

\* C13: when the scan succeeds and some whitelisted audio file matches a
\* representation of the cue's index, the file returned matches the
\* representation of highest priority (4 digits, then 3, then unpadded) that
\* has any match, in whatever order the directory is listed.
C13_HighestPriorityWins ==
    (Located /\ audio_dir.listdir_ok /\ \E rank \in 1..3 : HasMatch(rank)) =>
        LET best == CHOOSE rank \in 1..3 :
                        HasMatch(rank) /\ \A r \in 1..(rank - 1) : ~HasMatch(r)
        IN /\ Exists(audio_dir, audio_path)
           /\ IsAudioFile(ReturnedEntry)
           /\ NameFits(audio_path, CueIndex, best)

\* A file of lower priority is listed before the file that is returned.
C13_Witness ==
    /\ Located
    /\ audio_dir.listdir_ok
    /\ Len(audio_dir.files) >= 2
    /\ audio_path = audio_dir.files[2].name
    /\ IsAudioFile(audio_dir.files[1])
    /\ NameFits(audio_dir.files[1].name, CueIndex, 3)
    /\ NameFits(audio_path, CueIndex, 1)

\* The names find_audio_for_subtitle can return for a cue of another index in
\* the same directory.
Locatable(index) ==
    IF audio_dir.listdir_ok /\ ScanDirectory(audio_dir.files, index_formats(index)) # NoName
    THEN {ScanDirectory(audio_dir.files, index_formats(index))}
    ELSE Fallback(audio_dir, index_formats(index))
OtherIndexes == ((1..MaxIndex) \cup {10 * k : k \in 1..MaxIndex}) \ {CueIndex}
NotSharedWithOtherCue == \A j \in OtherIndexes : audio_path \notin Locatable(j)

FoundByScan ==
    audio_dir.listdir_ok /\ ScanDirectory(audio_dir.files, index_formats(CueIndex)) # NoName

ClipSegments == SelectSeq(segment_files, LAMBDA p : p.k = "processed")
CueOfClip(p) == (CHOOSE m \in Range(matches) : m.processed_path = p).subtitle
InputRank(sub) == CHOOSE k \in 1..Len(subtitles) : subtitles[k] = sub

\* C14: the clip segments of the timeline are in ascending order of their
\* cue's start_time, whatever the order of the indexes; clips of cues with
\* equal start_time keep the order they had in the list handed over; and
\* when the walk is over every match has its clip in the timeline.
C14_ClipsInStartOrder ==
    InTimeline =>
        /\ \A a, b \in 1..Len(ClipSegments) :
               a < b =>
                   LET ca == CueOfClip(ClipSegments[a])
                       cb == CueOfClip(ClipSegments[b])
                   IN /\ ca.start_time <= cb.start_time
                      /\ ca.start_time = cb.start_time => InputRank(ca) < InputRank(cb)
        /\ pc \in {"concat_wait", "tl_return"} =>
               /\ Len(ClipSegments) = Len(matches)
               /\ manifest = segment_files

\* The clip of a cue of higher index stands before the clip of a cue of
\* lower index.
C14_Witness ==
    /\ pc = "concat_wait"
    /\ Len(ClipSegments) >= 2
    /\ CueOfClip(ClipSegments[1]).index > CueOfClip(ClipSegments[2]).index
    /\ CueOfClip(ClipSegments[1]).start_time < CueOfClip(ClipSegments[2]).start_time

\* The cue a block stands for, and how often a cue occurs in a list.
CueOfBlock(b) ==
    [index |-> b.index, start_time |-> parse_srt_time(b.start),
     end_time |-> parse_srt_time(b.end)]
TimesIn(list, x) == Cardinality({k \in 1..Len(list) : list[k] = x})
WithoutDuration(sub) ==
    [index |-> sub.index, start_time |-> sub.start_time, end_time |-> sub.end_time]

\* C15: whatever the order of the blocks in the file, parse_srt_file returns
\* the cues in ascending order of index, each block's cue as many times as
\* the block occurs (none lost, none duplicated), and every cue has
\* duration = end_time - start_time.
C15_SortedByIndex ==
    pc = "parsed" =>
        /\ \A j, k \in 1..Len(subtitles) : j < k => subtitles[j].index <= subtitles[k].index
        /\ Len(subtitles) = Len(content)
        /\ \A b \in Range(content) :
               TimesIn([k \in 1..Len(subtitles) |-> WithoutDuration(subtitles[k])], CueOfBlock(b))
                   = TimesIn([k \in 1..Len(content) |-> CueOfBlock(content[k])], CueOfBlock(b))
        /\ \A k \in 1..Len(subtitles) :
               subtitles[k].duration = subtitles[k].end_time - subtitles[k].start_time

\* A file whose blocks are not in index order has been parsed.
C15_Witness ==
    /\ pc = "parsed"
    /\ \E j, k \in 1..Len(content) : j < k /\ content[j].index > content[k].index

\* A per-clip job or a silence job returns with its file written.
JobWrote ==
    /\ engine.kind \in {"process", "silence"}
    /\ engine' = NoJob
    /\ pc' \in {"proc_loop", "tl_loop"}

\* C16 as stated: every per-clip job and every silence job of a run writes
\* to a path of the scratch directory that no earlier job of the run wrote
\* to, so each completed job adds one file and overwrites none.
C16_DisjointScratchPaths ==
    [][JobWrote =>
          /\ DOMAIN scratch' # DOMAIN scratch
          /\ \A p \in DOMAIN scratch : scratch'[p] = scratch[p]]_vars

\* The worker threads alive: the one whose position is pc, and those that
\* have posted the callback of line 788 and still have line 789 to run.
Workers == (IF pc = "idle" THEN 0 ELSE 1) + late

\* C18 as stated, its safety part: at most one worker runs at a time, and
\* the Start button is never enabled while a worker is still running.
C18_OneWorkerStartDisabled ==
    /\ Workers <= 1
    /\ btn_start = "normal" => Workers = 0

====
